---- MODULE Spec2Model ----
(***************************************************************************)
(* Model of the GPU resource core of screen-13:                            *)
(*   - gpu/texture.rs : Texture (tracked synchronization state, barriers   *)
(*                      recorded by set_layout, the image-view cache)      *)
(*   - driver/compute.rs : ComputePipeline::create / Drop and              *)
(*                      ComputePipelineInfo                                *)
(* The device is modelled by the objects it has been asked to create and   *)
(* destroy; a command buffer by the sequence of barriers recorded into it. *)
(***************************************************************************)
EXTENDS Integers, Sequences, FiniteSets, TLC

(***************************************************************************)
(* Bounds of the model.                                                    *)
(***************************************************************************)
MaxMips == 2
MaxLayers == 2
MaxCalls == 4
MaxViewCalls == 2
MaxCreates == 3
MaxAcquires == 3
MaxOpCalls == 6
MaxRecorded == 2

(***************************************************************************)
(* Value domains of gfx_hal used by texture.rs.  Access is a bit-flag set  *)
(* and is modelled as a set of flag names; Access::empty() is {}.          *)
(***************************************************************************)
Formats == {"Rgba8Unorm", "D32Sfloat"}

is_depth(format) == format = "D32Sfloat"

AccessEmpty == {}

InitialLayouts == {"Undefined", "Preinitialized", "General"}

RequestLayouts == {"ColorAttachmentOptimal", "ShaderReadOnlyOptimal"}

RequestStages == {"COLOR_ATTACHMENT_OUTPUT", "FRAGMENT_SHADER"}

RequestAccess == {{"COLOR_ATTACHMENT_WRITE"}, {"SHADER_READ"}}

ViewKinds == {"D2", "D2Array"}

\* Swizzle::default() is Swizzle::NO, the identity mapping (R, G, B, A).
SwizzleDefault == <<"R", "G", "B", "A">>

Swizzles == {SwizzleDefault, <<"B", "G", "R", "A">>}

\* A Rust range a..b
Range(a, b) == [start |-> a, end |-> b]

SubresourceRange(aspects, levels, layers) ==
    [aspects |-> aspects, levels |-> levels, layers |-> layers]

ViewRanges ==
    { SubresourceRange({"COLOR"}, Range(0, 1), Range(0, 1)),
      SubresourceRange({"DEPTH"}, Range(0, 1), Range(0, 1)) }

VARIABLES
    texture,      \* the Texture value, [kind |-> "none"] before construction
    cmd_buf,      \* barriers recorded into the command buffer, in order
    image_views,  \* device-level image views created so far (ImageView::new)
    view_ref,     \* the live ImageViewRef handed out by as_view, or NoRef
    panicked,     \* a RefCell borrow failed and the thread is unwinding
    callLog,      \* the Texture calls that returned, with their arguments
    released,     \* what dropping the Texture released, in order
    device,       \* the vk objects alive on the Device and the handles it gave out
    pipelines,    \* the ComputePipeline values owned by the caller
    creates,      \* number of ComputePipeline::create calls so far
    last_op,      \* the most recent create or drop: inputs, result, device calls
    gpu,          \* the Gpu: whether it is alive, and the events of its teardown
    pool,         \* the Pool behind PoolRef: idle instances, instances allocated
    leases,       \* the Lease values held directly by callers of the pool
    models,       \* the Model values built by load_model, each holding two leases
    poolLog,      \* the acquisitions and releases the pool has served, in order
    ops,          \* Gpu::ops, the OpCache: None or Some(list of pending ops)
    renders,      \* the Render values handed out by render and not yet resolved
    next_op,      \* the number of ops recorded so far (ops are named 1, 2, ...)
    opLog         \* the render and resolve calls made, in order

texVars == <<texture, cmd_buf, image_views, view_ref, panicked, callLog, released>>

pipeVars == <<device, pipelines, creates, last_op>>

gpuVars == <<gpu, pool, leases, models, poolLog>>

opsVars == <<ops, renders, next_op, opLog>>

vars == <<texVars, pipeVars, gpuVars, opsVars>>

NoTexture == [kind |-> "none"]

NoRef == [held |-> FALSE]

\* The kinds of a Texture that has been constructed and not yet dropped.
LiveKinds == {"Image", "Image2d"}

Logged(call) == callLog' = Append(callLog, call)

(***************************************************************************)
(* struct State and the constructors.                                      *)
(***************************************************************************)
State(access_mask, layout, pipeline_stage) ==
    [access_mask |-> access_mask, layout |-> layout, pipeline_stage |-> pipeline_stage]

FromSwapchain(format) ==
    [ kind   |-> "Image",
      format |-> format,
      image  |-> [mips |-> 1, layers |-> 1],
      state  |-> State(AccessEmpty, "Undefined", "TOP_OF_PIPE"),
      views  |-> << >> ]

\* Mutation: the access mask ignores the layout.
NewAccessMask_AlwaysEmpty(layout) == AccessEmpty

NewAccessMask(layout) ==
    IF layout = "Preinitialized" THEN {"HOST_WRITE"} ELSE AccessEmpty

TextureNew(format, layout, layers, mips) ==
    [ kind   |-> "Image2d",
      format |-> format,
      image  |-> [mips |-> mips, layers |-> layers],
      state  |-> State(NewAccessMask(layout), layout, "TOP_OF_PIPE"),
      views  |-> << >> ]

\* Texture::from_swapchain: the swapchain hands over the image and its format.
from_swapchain ==
    /\ texture.kind = "none"
    /\ \E format \in Formats :
         /\ texture' = FromSwapchain(format)
         /\ Logged([op |-> "from_swapchain", format |-> format])
    /\ UNCHANGED <<cmd_buf, image_views, view_ref, panicked, released, pipeVars, gpuVars, opsVars>>

\* Texture::new: best_fmt picks the format the device supports; the image is
\* created with the requested layers and mips.
new ==
    /\ texture.kind = "none"
    /\ \E format \in Formats, layout \in InitialLayouts,
          layers \in 1..MaxLayers, mips \in 1..MaxMips :
         /\ texture' = TextureNew(format, layout, layers, mips)
         /\ Logged([op |-> "new", format |-> format, layout |-> layout,
                    layers |-> layers, mips |-> mips])
    /\ UNCHANGED <<cmd_buf, image_views, view_ref, panicked, released, pipeVars, gpuVars, opsVars>>

(***************************************************************************)
(* Texture::acquire_swapchain (impl Texture<Image> only).                  *)
(***************************************************************************)
\* Mutation: the reset forgets the layout and keeps the one tracked before.
AcquireSwapchainState_KeepsLayout ==
    State(AccessEmpty, texture.state.layout, "TOP_OF_PIPE")

AcquireSwapchainState == State(AccessEmpty, "Undefined", "TOP_OF_PIPE")

acquire_swapchain ==
    /\ texture.kind = "Image"
    /\ ~panicked
    /\ view_ref = NoRef              \* &mut self: no shared borrow is alive
    /\ Len(callLog) < MaxCalls
    /\ texture' = [texture EXCEPT !.state = AcquireSwapchainState]
    /\ Logged([op |-> "acquire_swapchain"])
    /\ UNCHANGED <<cmd_buf, image_views, view_ref, panicked, released, pipeVars, gpuVars, opsVars>>

(***************************************************************************)
(* Texture::set_layout: one pipeline_barrier with one Barrier::Image from  *)
(* the tracked state to the requested one, then the three assignments.     *)
(***************************************************************************)
\* Mutation: the aspect ignores the format.
BarrierAspects_AlwaysColor(format) == {"COLOR"}

BarrierAspects(format) == IF is_depth(format) THEN {"DEPTH"} ELSE {"COLOR"}

BarrierRange(tex) ==
    SubresourceRange(BarrierAspects(tex.format), Range(0, 1), Range(0, 1))

\* Mutation: the tracked state is overwritten before the barrier is recorded,
\* so the barrier's source is already the requested state.
SetLayoutBarrier_AfterUpdate(tex, layout, pipeline_stage, access_mask) ==
    [ stages |-> Range(pipeline_stage, pipeline_stage),
      states |-> Range(<<access_mask, layout>>, <<access_mask, layout>>),
      range  |-> BarrierRange(tex) ]

SetLayoutBarrier(tex, layout, pipeline_stage, access_mask) ==
    [ stages |-> Range(tex.state.pipeline_stage, pipeline_stage),
      states |-> Range(<<tex.state.access_mask, tex.state.layout>>,
                       <<access_mask, layout>>),
      range  |-> BarrierRange(tex) ]

\* Mutation: a partial update that forgets the pipeline stage.
SetLayoutState_NoStage(state, layout, pipeline_stage, access_mask) ==
    [state EXCEPT !.access_mask = access_mask, !.layout = layout]

SetLayoutState(state, layout, pipeline_stage, access_mask) ==
    [state EXCEPT !.access_mask = access_mask,
                  !.layout = layout,
                  !.pipeline_stage = pipeline_stage]

set_layout ==
    /\ texture.kind \in LiveKinds
    /\ ~panicked
    /\ view_ref = NoRef              \* &mut self: no shared borrow is alive
    /\ Len(callLog) < MaxCalls
    /\ \E layout \in RequestLayouts, pipeline_stage \in RequestStages,
          access_mask \in RequestAccess :
         /\ cmd_buf' = Append(cmd_buf,
                SetLayoutBarrier(texture, layout, pipeline_stage, access_mask))
         /\ texture' = [texture EXCEPT !.state =
                SetLayoutState(texture.state, layout, pipeline_stage, access_mask)]
         /\ Logged([op |-> "set_layout", layout |-> layout,
                    pipeline_stage |-> pipeline_stage, access_mask |-> access_mask,
                    before |-> texture.state])
    /\ UNCHANGED <<image_views, view_ref, panicked, released, pipeVars, gpuVars, opsVars>>

(***************************************************************************)
(* The view cache: Texture::as_view and its convenience forms.  An         *)
(* ImageView is the device object made by ImageView::new, identified by    *)
(* the handle the device gave it (its position in image_views).            *)
(***************************************************************************)
ImageViewKey(view_kind, format, swizzle, range) ==
    [view_kind |-> view_kind, format |-> format, swizzle |-> swizzle, range |-> range]

ImageViewNew(view_kind, format, swizzle, range) ==
    [ handle |-> Len(image_views) + 1,
      view_kind |-> view_kind, format |-> format, swizzle |-> swizzle, range |-> range ]

\* Mutation: the lookup never hits, so every request builds a view.
ContainsKey_Never(views, key) == FALSE

ContainsKey(views, key) == key \in DOMAIN views

Insert(views, key, view) ==
    [k \in DOMAIN views \cup {key} |-> IF k = key THEN view ELSE views[k]]

\* Deref for ImageViewRef: &self.views[&self.key]
Deref(views, ref) == views[ref.key]

\* views.borrow_mut() panics (BorrowMutError) while an ImageViewRef, which
\* holds a Ref of the same RefCell, is alive.
as_view(view_kind, format, swizzle, range) ==
    LET key == ImageViewKey(view_kind, format, swizzle, range) IN
    /\ texture.kind \in LiveKinds
    /\ ~panicked
    /\ IF view_ref # NoRef
       THEN /\ panicked' = TRUE
            /\ UNCHANGED <<texture, image_views, view_ref>>
       ELSE /\ IF ~ContainsKey(texture.views, key)
               THEN /\ texture' = [texture EXCEPT !.views =
                          Insert(@, key, ImageViewNew(view_kind, format, swizzle, range))]
                    /\ image_views' = Append(image_views,
                          ImageViewNew(view_kind, format, swizzle, range))
               ELSE UNCHANGED <<texture, image_views>>
            /\ view_ref' = [key |-> key]
            /\ UNCHANGED panicked
    /\ UNCHANGED <<cmd_buf, released, pipeVars, gpuVars, opsVars>>

as_default_2d_view_format(format) ==
    as_view("D2", format, SwizzleDefault,
            SubresourceRange({"COLOR"}, Range(0, 1), Range(0, 1)))

\* Mutation: the default view is built for a fixed format, not the texture's.
as_default_2d_view_FixedFormat == as_default_2d_view_format("Rgba8Unorm")

as_default_2d_view == as_default_2d_view_format(texture.format)

\* The ImageViewRef goes out of scope and releases its Ref of the cache.
drop_image_view_ref ==
    /\ view_ref # NoRef
    /\ ~panicked
    /\ view_ref' = NoRef
    /\ UNCHANGED <<texture, cmd_buf, image_views, panicked, callLog, released, pipeVars, gpuVars, opsVars>>

ViewOps == {"as_view", "as_default_2d_view", "as_default_2d_view_format"}

ViewCalls == {i \in 1..Len(callLog) : callLog[i].op \in ViewOps}

\* A view call that returned is logged with its arguments, the key of the
\* handle it returned and the view that handle dereferences to.
Returned(op, args) ==
    callLog' = IF panicked' THEN callLog
               ELSE Append(callLog, [op |-> op, args |-> args, key |-> view_ref'.key,
                                     view |-> Deref(texture'.views, view_ref')])

call_as_view ==
    /\ Cardinality(ViewCalls) < MaxViewCalls
    /\ \E view_kind \in ViewKinds, format \in Formats,
          swizzle \in Swizzles, range \in ViewRanges :
         /\ as_view(view_kind, format, swizzle, range)
         /\ Returned("as_view", <<view_kind, format, swizzle, range>>)

call_as_default_2d_view_format ==
    /\ Cardinality(ViewCalls) < MaxViewCalls
    /\ \E format \in Formats :
         /\ as_default_2d_view_format(format)
         /\ Returned("as_default_2d_view_format", <<format>>)

call_as_default_2d_view ==
    /\ Cardinality(ViewCalls) < MaxViewCalls
    /\ as_default_2d_view
    /\ Returned("as_default_2d_view", << >>)

(***************************************************************************)
(* Drop for Texture: drop() clears the view cache, which drops every       *)
(* cached ImageView (in the map's iteration order, which is unspecified);  *)
(* the fields, the image among them, are dropped after drop() returns.     *)
(***************************************************************************)
Orders(S) ==
    {order \in [1..Cardinality(S) -> S] :
        \A i, j \in 1..Cardinality(S) : i # j => order[i] # order[j]}

ViewReleases(order) ==
    [i \in 1..Len(order) |-> [obj |-> "view", handle |-> order[i]]]

\* Mutation: without the clear() the fields go in declaration order, the
\* image before the views.
TextureDropReleases_FieldOrder(order) ==
    <<[obj |-> "image"]>> \o ViewReleases(order)

TextureDropReleases(order) ==
    ViewReleases(order) \o <<[obj |-> "image"]>>

drop_texture ==
    /\ texture.kind \in LiveKinds
    /\ ~panicked
    /\ view_ref = NoRef              \* &mut self: no shared borrow is alive
    /\ \E order \in Orders({texture.views[k].handle : k \in DOMAIN texture.views}) :
         released' = TextureDropReleases(order)
    /\ texture' = [texture EXCEPT !.kind = "dropped", !.views = << >>]
    /\ Logged([op |-> "drop"])
    /\ UNCHANGED <<cmd_buf, image_views, view_ref, panicked, pipeVars, gpuVars, opsVars>>

(***************************************************************************)
(* driver/compute.rs: ComputePipelineInfo and its builder.                 *)
(***************************************************************************)
BindlessDescriptorCountDefault == 8192

None == [some |-> FALSE]

Some(v) == [some |-> TRUE, value |-> v]

\* #[derive(Default)] on the struct: every field takes its type's default.
ComputePipelineInfoDefault ==
    [bindless_descriptor_count |-> 0, name |-> None]

\* ComputePipelineInfoBuilder::build: a field never set takes its
\* #[builder(default = ...)] expression.
build(builder) ==
    [ bindless_descriptor_count |->
          IF builder.bindless_descriptor_count.some
          THEN builder.bindless_descriptor_count.value
          ELSE BindlessDescriptorCountDefault,
      name |-> IF builder.name.some THEN builder.name.value ELSE None ]

\* The `info: impl Into<ComputePipelineInfo>` argument of create: a
\* ComputePipelineInfo value or a builder (From<ComputePipelineInfoBuilder>).
InfoInputs ==
    { [via |-> "default"],
      [via |-> "builder", bindless_descriptor_count |-> None, name |-> None],
      [via |-> "builder", bindless_descriptor_count |-> Some(16), name |-> None] }

Into(input) ==
    IF input.via = "default" THEN ComputePipelineInfoDefault ELSE build(input)

(***************************************************************************)
(* The shaders given to create: the reflected binding map (binding slot to *)
(* declared count) and whether the shader has a push-constant range.       *)
(***************************************************************************)
Shaders ==
    { [descriptor_bindings |-> (0 :> 0),            push_constant_range |-> None],
      [descriptor_bindings |-> (0 :> 0) @@ (1 :> 3), push_constant_range |-> Some(4)],
      [descriptor_bindings |-> (0 :> 2) @@ (1 :> 3), push_constant_range |-> None] }

\* What the device may refuse during one create call.
Failures ==
    {"none", "descriptor_info", "shader_module", "pipeline_layout", "compute_pipeline"}

\* Mutation: the count is overwritten for every binding, not only those of
\* declared count 0.
RewriteBindings_All(descriptor_bindings, info) ==
    [b \in DOMAIN descriptor_bindings |-> info.bindless_descriptor_count]

\* for (descriptor_info, _) in descriptor_bindings.values_mut() { .. }
RewriteBindings(descriptor_bindings, info) ==
    [b \in DOMAIN descriptor_bindings |->
        IF descriptor_bindings[b] = 0
        THEN info.bindless_descriptor_count
        ELSE descriptor_bindings[b]]

\* PipelineDescriptorInfo::create(&device, &descriptor_bindings): the set
\* layouts are built from the binding map it is handed.
PipelineDescriptorInfoCreate(descriptor_bindings) ==
    [layouts |-> descriptor_bindings]

(***************************************************************************)
(* The device calls of compute.rs.  A handle is the number of the object   *)
(* among those the device has created.                                     *)
(***************************************************************************)
DeviceCall(name, ok, handle) == [call |-> name, ok |-> ok, handle |-> handle]

create_shader_module(dev) ==
    [dev EXCEPT !.handles = @ + 1, !.shader_modules = @ \cup {dev.handles + 1}]

\* Mutation: a layout already on the device is taken for the new one and no
\* object is created.
create_pipeline_layout_Cached(dev) ==
    IF dev.pipeline_layouts # {}
    THEN dev
    ELSE [dev EXCEPT !.handles = @ + 1, !.pipeline_layouts = @ \cup {dev.handles + 1}]

create_pipeline_layout(dev) ==
    [dev EXCEPT !.handles = @ + 1, !.pipeline_layouts = @ \cup {dev.handles + 1}]

create_compute_pipelines(dev) ==
    [dev EXCEPT !.handles = @ + 1, !.pipelines = @ \cup {dev.handles + 1}]

destroy_shader_module(dev, shader_module) ==
    [dev EXCEPT !.shader_modules = @ \ {shader_module}]

destroy_pipeline(dev, pipeline) ==
    [dev EXCEPT !.pipelines = @ \ {pipeline}]

destroy_pipeline_layout(dev, layout) ==
    [dev EXCEPT !.pipeline_layouts = @ \ {layout}]

Err(e) == [ok |-> FALSE, err |-> e]

\* Mutation: the device's error code is passed on as it is.
MapErr_Passthrough(err) == err

\* .map_err(|err| { warn!("{err}"); DriverError::Unsupported })
MapErr(err) == "Unsupported"

\* The vk::Result a refused creation call returns.
VkError == "ERROR_OUT_OF_DEVICE_MEMORY"

Ok(v) == [ok |-> TRUE, value |-> v]

\* The unsafe block of create: every `?` returns at once with what has been
\* created so far left as it is.
CreateObjects(dev, info, descriptor_bindings, descriptor_info, push_constants, fails) ==
    IF fails = "shader_module"
    THEN [ device |-> dev, result |-> Err(MapErr(VkError)),
           calls |-> <<DeviceCall("create_shader_module", FALSE, 0)>> ]
    ELSE
    LET shader_module == dev.handles + 1
        d1 == create_shader_module(dev)
        c1 == <<DeviceCall("create_shader_module", TRUE, shader_module)>>
    IN
    IF fails = "pipeline_layout"
    THEN [ device |-> d1, result |-> Err(MapErr(VkError)),
           calls |-> Append(c1, DeviceCall("create_pipeline_layout", FALSE, 0)) ]
    ELSE
    LET layout == d1.handles + 1
        d2 == create_pipeline_layout(d1)
        c2 == Append(c1, DeviceCall("create_pipeline_layout", TRUE, layout))
    IN
    IF fails = "compute_pipeline"
    THEN [ device |-> d2, result |-> Err(MapErr(VkError)),
           calls |-> Append(c2, DeviceCall("create_compute_pipelines", FALSE, 0)) ]
    ELSE
    LET pipeline == d2.handles + 1
        d3 == create_compute_pipelines(d2)
        c3 == Append(c2, DeviceCall("create_compute_pipelines", TRUE, pipeline))
    IN
    [ device |-> destroy_shader_module(d3, shader_module),
      result |-> Ok([ descriptor_bindings |-> descriptor_bindings,
                      descriptor_info |-> descriptor_info,
                      info |-> info,
                      layout |-> layout,
                      pipeline |-> pipeline,
                      push_constants |-> push_constants ]),
      calls |-> Append(c3, DeviceCall("destroy_shader_module", TRUE, shader_module)) ]

\* ComputePipeline::create(device, info, shader)
Create(dev, input, shader, fails) ==
    LET info == Into(input)
        descriptor_bindings == RewriteBindings(shader.descriptor_bindings, info)
    IN
    IF fails = "descriptor_info"
    THEN [ device |-> dev, result |-> Err("PipelineDescriptorInfo"), calls |-> << >> ]
    ELSE CreateObjects(dev, info, descriptor_bindings,
                       PipelineDescriptorInfoCreate(descriptor_bindings),
                       shader.push_constant_range, fails)

create ==
    /\ creates < MaxCreates
    /\ \E input \in InfoInputs, shader \in Shaders, fails \in Failures :
         LET out == Create(device, input, shader, fails) IN
         /\ device' = out.device
         /\ pipelines' = IF out.result.ok THEN pipelines \cup {out.result.value}
                         ELSE pipelines
         /\ last_op' = [ op |-> "create", input |-> input, shader |-> shader,
                         result |-> out.result, calls |-> out.calls ]
    /\ creates' = creates + 1
    /\ UNCHANGED <<texVars, gpuVars, opsVars>>

\* Mutation: the layout is destroyed before the pipeline.
Drop_LayoutFirst(dev, self, panicking) ==
    IF panicking
    THEN [device |-> dev, calls |-> << >>]
    ELSE [ device |-> destroy_pipeline(destroy_pipeline_layout(dev, self.layout),
                                       self.pipeline),
           calls |-> << DeviceCall("destroy_pipeline_layout", TRUE, self.layout),
                        DeviceCall("destroy_pipeline", TRUE, self.pipeline) >> ]

\* Mutation: the second call repeats destroy_pipeline, on the pipeline.
Drop_PipelineTwice(dev, self, panicking) ==
    IF panicking
    THEN [device |-> dev, calls |-> << >>]
    ELSE [ device |-> destroy_pipeline(destroy_pipeline(dev, self.pipeline),
                                       self.pipeline),
           calls |-> << DeviceCall("destroy_pipeline", TRUE, self.pipeline),
                        DeviceCall("destroy_pipeline", TRUE, self.pipeline) >> ]

\* Mutation: the panicking() test is missing.
Drop_IgnoresPanicking(dev, self, panicking) ==
    [ device |-> destroy_pipeline_layout(destroy_pipeline(dev, self.pipeline),
                                         self.layout),
      calls |-> << DeviceCall("destroy_pipeline", TRUE, self.pipeline),
                   DeviceCall("destroy_pipeline_layout", TRUE, self.layout) >> ]

\* Drop for ComputePipeline; `panicking` is std::thread::panicking().
Drop(dev, self, panicking) ==
    IF panicking
    THEN [device |-> dev, calls |-> << >>]
    ELSE [ device |-> destroy_pipeline_layout(destroy_pipeline(dev, self.pipeline),
                                              self.layout),
           calls |-> << DeviceCall("destroy_pipeline", TRUE, self.pipeline),
                        DeviceCall("destroy_pipeline_layout", TRUE, self.layout) >> ]

drop ==
    /\ \E self \in pipelines, panicking \in BOOLEAN :
         LET out == Drop(device, self, panicking) IN
         /\ device' = out.device
         /\ pipelines' = pipelines \ {self}
         /\ last_op' = [ op |-> "drop", self |-> self, panicking |-> panicking,
                         calls |-> out.calls ]
    /\ UNCHANGED <<creates, texVars, gpuVars, opsVars>>

(***************************************************************************)
(* The leasing pool (gpu/pool.rs) as the specification describes it: a     *)
(* free-list of idle instances searched for a compatible shape, most       *)
(* recently released first; a miss allocates an instance sized to the      *)
(* request; a released lease puts its instance back on the free-list.      *)
(***************************************************************************)
DataLens == {1, 2}

DataShape(len, usage) == [kind |-> "data", len |-> len, usage |-> usage]

PoolShapes ==
    {DataShape(len, usage) : len \in DataLens, usage \in {{"VERTEX"}, {"INDEX", "VERTEX"}}}

Compatible(instance, shape) ==
    /\ instance.kind = shape.kind
    /\ instance.len >= shape.len
    /\ shape.usage \subseteq instance.usage

CompatibleAt(idle, shape) == {i \in 1..Len(idle) : Compatible(idle[i], shape)}

FirstCompatible(idle, shape) ==
    IF CompatibleAt(idle, shape) = {} THEN 0
    ELSE CHOOSE i \in CompatibleAt(idle, shape) :
            \A j \in CompatibleAt(idle, shape) : i <= j

RemoveAt(seq, i) == SubSeq(seq, 1, i - 1) \o SubSeq(seq, i + 1, Len(seq))

\* Mutation: a hit leaves the instance on the free-list.
Acquire_KeepsIdle(p, shape) ==
    IF FirstCompatible(p.idle, shape) # 0
    THEN [ pool |-> p,
           instance |-> p.idle[FirstCompatible(p.idle, shape)],
           allocated |-> FALSE ]
    ELSE [ pool |-> [p EXCEPT !.made = @ + 1],
           instance |-> [id |-> p.made + 1, kind |-> shape.kind,
                         len |-> shape.len, usage |-> shape.usage],
           allocated |-> TRUE ]

\* acquire(shape), in the code Pool::data_usage(len, usage)
Acquire(p, shape) ==
    IF FirstCompatible(p.idle, shape) # 0
    THEN [ pool |-> [p EXCEPT !.idle = RemoveAt(@, FirstCompatible(p.idle, shape))],
           instance |-> p.idle[FirstCompatible(p.idle, shape)],
           allocated |-> FALSE ]
    ELSE [ pool |-> [p EXCEPT !.made = @ + 1],
           instance |-> [id |-> p.made + 1, kind |-> shape.kind,
                         len |-> shape.len, usage |-> shape.usage],
           allocated |-> TRUE ]

\* Mutation: a disposed lease takes its instance with it.
Release_Discards(p, instance) == p

\* Disposal of a Lease
Release(p, instance) == [p EXCEPT !.idle = <<instance>> \o @]

AcquireEntry(p, shape, out) ==
    [ op |-> "acquire", shape |-> shape, instance |-> out.instance.id,
      allocated |-> out.allocated, idle_before |-> p.idle ]

ReleaseEntry(instance) == [op |-> "release", instance |-> instance.id]

Acquisitions == {i \in 1..Len(poolLog) : poolLog[i].op = "acquire"}

\* The pool is destroyed with the last PoolRef: the Gpu's, a Model's or a
\* Lease's.  Its idle instances are destroyed with it.
PoolDestroyEvents(p) ==
    [i \in 1..Len(p.idle) |-> [ev |-> "destroy", instance |-> p.idle[i].id]]

LastHolderGone(gpu_alive, held, built) ==
    ~gpu_alive /\ held = << >> /\ built = << >>

\* What the drop of one PoolRef holder does to the pool and the teardown.
AfterHolderDrop(p, held, built) ==
    /\ pool' = IF LastHolderGone(gpu.alive, held, built)
               THEN [p EXCEPT !.idle = << >>, !.destroyed = TRUE]
               ELSE p
    /\ gpu' = IF LastHolderGone(gpu.alive, held, built)
              THEN [gpu EXCEPT !.teardown = @ \o PoolDestroyEvents(p)]
              ELSE gpu

\* pool.borrow_mut().data_usage(len, usage) by a caller holding a PoolRef
data_usage ==
    /\ gpu.alive
    /\ Cardinality(Acquisitions) < MaxAcquires
    /\ \E shape \in PoolShapes :
         LET out == Acquire(pool, shape) IN
         /\ pool' = out.pool
         /\ leases' = Append(leases, out.instance)
         /\ poolLog' = Append(poolLog, AcquireEntry(pool, shape, out))
    /\ UNCHANGED <<gpu, models, texVars, pipeVars, opsVars>>

drop_lease ==
    /\ \E i \in 1..Len(leases) :
         /\ leases' = RemoveAt(leases, i)
         /\ poolLog' = Append(poolLog, ReleaseEntry(leases[i]))
         /\ AfterHolderDrop(Release(pool, leases[i]), RemoveAt(leases, i), models)
    /\ UNCHANGED <<models, texVars, pipeVars, opsVars>>

(***************************************************************************)
(* Gpu::load_model: the index buffer and then the vertex buffer are leased *)
(* from the pool and handed to the Model together with a PoolRef.          *)
(***************************************************************************)
LoadModel(p, index_buf_len, vertex_buf_len) ==
    LET index_shape == DataShape(index_buf_len, {"INDEX"})
        vertex_shape == DataShape(vertex_buf_len, {"VERTEX"})
        index_out == Acquire(p, index_shape)
        vertex_out == Acquire(index_out.pool, vertex_shape)
    IN [ pool |-> vertex_out.pool,
         model |-> [index_buf |-> index_out.instance, vertex_buf |-> vertex_out.instance],
         log |-> << AcquireEntry(p, index_shape, index_out),
                    AcquireEntry(index_out.pool, vertex_shape, vertex_out) >> ]

load_model ==
    /\ gpu.alive
    /\ Cardinality(Acquisitions) + 2 <= MaxAcquires
    /\ \E index_buf_len \in DataLens, vertex_buf_len \in DataLens :
         LET out == LoadModel(pool, index_buf_len, vertex_buf_len) IN
         /\ pool' = out.pool
         /\ models' = Append(models, out.model)
         /\ poolLog' = poolLog \o out.log
    /\ UNCHANGED <<gpu, leases, texVars, pipeVars, opsVars>>

\* The last ModelRef goes: the Model's two leases are disposed of.
drop_model ==
    /\ \E i \in 1..Len(models) :
         /\ models' = RemoveAt(models, i)
         /\ poolLog' = poolLog \o << ReleaseEntry(models[i].index_buf),
                                      ReleaseEntry(models[i].vertex_buf) >>
         /\ AfterHolderDrop(Release(Release(pool, models[i].index_buf),
                                     models[i].vertex_buf),
                            leases, RemoveAt(models, i))
    /\ UNCHANGED <<leases, texVars, pipeVars, opsVars>>

(***************************************************************************)
(* Drop for Gpu: drop() calls wait_idle(), which unwraps the driver's      *)
(* wait_idle(); the fields driver, ops and pool are dropped after that, in *)
(* declaration order (also while unwinding from the unwrap).               *)
(***************************************************************************)
FieldDrops ==
    << [ev |-> "drop", field |-> "driver"],
       [ev |-> "drop", field |-> "ops"],
       [ev |-> "drop", field |-> "pool"] >>

\* Mutation: drop() does not wait.
GpuDropEvents_NoWait(wait_ok) == FieldDrops

GpuDropEvents(wait_ok) ==
    <<[ev |-> "wait_idle", ok |-> wait_ok]>>
        \o (IF wait_ok THEN << >> ELSE <<[ev |-> "panic"]>>)
        \o FieldDrops

drop_gpu ==
    /\ gpu.alive
    /\ \E wait_ok \in BOOLEAN :
         gpu' = [ alive |-> FALSE,
                  teardown |-> GpuDropEvents(wait_ok) \o
                      (IF LastHolderGone(FALSE, leases, models)
                       THEN PoolDestroyEvents(pool) ELSE << >>) ]
    /\ pool' = IF LastHolderGone(FALSE, leases, models)
               THEN [pool EXCEPT !.idle = << >>, !.destroyed = TRUE]
               ELSE pool
    /\ UNCHANGED <<leases, models, poolLog, texVars, pipeVars, opsVars>>

(***************************************************************************)
(* Gpu::render and Gpu::resolve: the cache of ops left pending by resolved *)
(* renders.  A Render is built with the ops taken from the cache; it       *)
(* records further ops of its own, and Render::resolve hands back its ops. *)
(***************************************************************************)
\* self.ops.borrow_mut().take(), or Default::default() when the cache is None
RenderOps(cache) == IF cache.some THEN cache.value ELSE << >>

\* Render::new(name, &self.pool, dims, Format::Rgba8Unorm, ops)
RenderNew(taken) == [ops |-> taken]

\* render.resolve(): the ops the render was built with, then those it
\* recorded, which are new ops.
RenderResolve(render_value, recorded) ==
    render_value.ops \o [i \in 1..recorded |-> next_op + i]

\* Mutation: the ops of a resolved render replace the cache.
ResolveCache_Replaces(cache, returned) == Some(returned)

\* cache.extend(ops) on Some, cache.replace(ops) on None
ResolveCache(cache, returned) ==
    IF cache.some THEN Some(cache.value \o returned) ELSE Some(returned)

\* Mutation: render reads the cache and leaves it in place.
RenderCache_Kept(cache) == cache

\* Option::take leaves None
RenderCache(cache) == None

render ==
    /\ gpu.alive
    /\ Len(opLog) < MaxOpCalls
    /\ renders' = Append(renders, RenderNew(RenderOps(ops)))
    /\ ops' = RenderCache(ops)
    /\ opLog' = Append(opLog, [op |-> "render", taken |-> RenderOps(ops)])
    /\ UNCHANGED <<next_op, texVars, pipeVars, gpuVars>>

resolve ==
    /\ gpu.alive
    /\ Len(opLog) < MaxOpCalls
    /\ \E r \in 1..Len(renders), recorded \in 0..MaxRecorded :
         LET returned == RenderResolve(renders[r], recorded) IN
         /\ ops' = ResolveCache(ops, returned)
         /\ renders' = RemoveAt(renders, r)
         /\ next_op' = next_op + recorded
         /\ opLog' = Append(opLog, [op |-> "resolve", returned |-> returned])
    /\ UNCHANGED <<texVars, pipeVars, gpuVars>>

Init ==
    /\ texture = NoTexture
    /\ cmd_buf = << >>
    /\ image_views = << >>
    /\ view_ref = NoRef
    /\ panicked = FALSE
    /\ callLog = << >>
    /\ released = << >>
    /\ device = [handles |-> 0, shader_modules |-> {}, pipeline_layouts |-> {},
                 pipelines |-> {}]
    /\ pipelines = {}
    /\ creates = 0
    /\ last_op = [op |-> "none"]
    /\ gpu = [alive |-> TRUE, teardown |-> << >>]
    /\ pool = [idle |-> << >>, made |-> 0, destroyed |-> FALSE]
    /\ leases = << >>
    /\ models = << >>
    /\ poolLog = << >>
    /\ ops = None
    /\ renders = << >>
    /\ next_op = 0
    /\ opLog = << >>

Next ==
    \/ from_swapchain
    \/ new
    \/ acquire_swapchain
    \/ set_layout

Spec == Init /\ [][Next]_vars

NextViews ==
    \/ from_swapchain
    \/ new
    \/ call_as_view
    \/ call_as_default_2d_view_format
    \/ call_as_default_2d_view
    \/ drop_image_view_ref
    \/ drop_texture

SpecViews == Init /\ [][NextViews]_vars

NextPipeline ==
    \/ create
    \/ drop

SpecPipeline == Init /\ [][NextPipeline]_vars

NextGpu ==
    \/ data_usage
    \/ drop_lease
    \/ load_model
    \/ drop_model
    \/ drop_gpu

SpecGpu == Init /\ [][NextGpu]_vars

NextOps ==
    \/ render
    \/ resolve

SpecOps == Init /\ [][NextOps]_vars

(***************************************************************************)
(* Vocabulary of the properties.                                           *)
(***************************************************************************)
LastCall == callLog[Len(callLog)]

SetLayoutCalls == {i \in 1..Len(callLog) : callLog[i].op = "set_layout"}

\* The position in cmd_buf of the barrier recorded by the i-th logged call.
BarrierIndex(i) == Cardinality({j \in SetLayoutCalls : j <= i})

Requested(call) == State(call.access_mask, call.layout, call.pipeline_stage)

Src(barrier) ==
    State(barrier.states.start[1], barrier.states.start[2], barrier.stages.start)

Dst(barrier) ==
    State(barrier.states.end[1], barrier.states.end[2], barrier.stages.end)

ResetTriple == State({}, "Undefined", "TOP_OF_PIPE")

AllFieldsDiffer(s, t) ==
    /\ s.access_mask # t.access_mask
    /\ s.layout # t.layout
    /\ s.pipeline_stage # t.pipeline_stage

(***************************************************************************)
(* C1: after any sequence of set_layout calls the tracked state record is  *)
(* exactly the triple (access mask, layout, pipeline stage) requested by   *)
(* the most recent call, whatever the state was before that call.          *)
(***************************************************************************)
C1_TrackedStateIsLastRequest ==
    (Len(callLog) > 0 /\ LastCall.op = "set_layout")
        => texture.state = Requested(LastCall)

\* A third set_layout whose request differs in all three fields from the
\* state it found.
C1_Witness ==
    /\ Len(callLog) = 4
    /\ \A i \in 2..4 : callLog[i].op = "set_layout"
    /\ AllFieldsDiffer(LastCall.before, Requested(LastCall))
    /\ texture.state = Requested(LastCall)

(***************************************************************************)
(* C2: the barriers of a texture form a chain in call order: every         *)
(* set_layout call records exactly one barrier, from the state tracked     *)
(* just before the call to the requested triple; with no swapchain reset   *)
(* in between, the source of a barrier is the destination of the previous  *)
(* one.                                                                    *)
(***************************************************************************)
C2_BarrierChain ==
    /\ Len(cmd_buf) = Cardinality(SetLayoutCalls)
    /\ \A i \in SetLayoutCalls :
         /\ Src(cmd_buf[BarrierIndex(i)]) = callLog[i].before
         /\ Dst(cmd_buf[BarrierIndex(i)]) = Requested(callLog[i])
    /\ \A i \in SetLayoutCalls :
         (i + 1 \in SetLayoutCalls)
            => Src(cmd_buf[BarrierIndex(i) + 1]) = Dst(cmd_buf[BarrierIndex(i)])

\* Undefined -> ColorAttachmentOptimal -> ShaderReadOnlyOptimal: two barriers.
C2_Witness ==
    /\ Len(callLog) = 3
    /\ callLog[1].op = "new" /\ callLog[1].layout = "Undefined"
    /\ Len(cmd_buf) = 2
    /\ Src(cmd_buf[1]).layout = "Undefined"
    /\ Dst(cmd_buf[1]).layout = "ColorAttachmentOptimal"
    /\ Src(cmd_buf[2]).layout = "ColorAttachmentOptimal"
    /\ Dst(cmd_buf[2]).layout = "ShaderReadOnlyOptimal"
    /\ texture.state.layout = "ShaderReadOnlyOptimal"

(***************************************************************************)
(* C3: every barrier recorded by set_layout covers the full mip and layer  *)
(* range of the texture: levels 0..mips and layers 0..layers.              *)
(***************************************************************************)
C3_BarrierCoversFullRange ==
    \A k \in 1..Len(cmd_buf) :
        /\ cmd_buf[k].range.levels = Range(0, texture.image.mips)
        /\ cmd_buf[k].range.layers = Range(0, texture.image.layers)

(***************************************************************************)
(* C4: every barrier recorded by set_layout has the depth aspect if the    *)
(* texture's format is a depth format and the color aspect otherwise.      *)
(***************************************************************************)
C4_BarrierAspectFollowsFormat ==
    \A k \in 1..Len(cmd_buf) :
        /\ is_depth(texture.format) <=> cmd_buf[k].range.aspects = {"DEPTH"}
        /\ ~is_depth(texture.format) <=> cmd_buf[k].range.aspects = {"COLOR"}

C4_Witness ==
    /\ Len(cmd_buf) >= 1
    /\ texture.format = "D32Sfloat"
    /\ cmd_buf[1].range.aspects = {"DEPTH"}

(***************************************************************************)
(* C5: acquire_swapchain leaves the tracked state at {no access,           *)
(* Undefined, TOP_OF_PIPE} whatever it was, the next set_layout records a  *)
(* barrier from exactly that triple, and from_swapchain starts the texture *)
(* in the same triple.                                                     *)
(***************************************************************************)
C5_SwapchainReset ==
    /\ (Len(callLog) > 0 /\ LastCall.op \in {"acquire_swapchain", "from_swapchain"})
          => texture.state = ResetTriple
    /\ \A i \in SetLayoutCalls :
          callLog[i - 1].op \in {"acquire_swapchain", "from_swapchain"}
            => Src(cmd_buf[BarrierIndex(i)]) = ResetTriple

\* A reset after a transition, followed by another transition.
C5_Witness ==
    /\ Len(callLog) = 4
    /\ callLog[1].op = "from_swapchain"
    /\ callLog[2].op = "set_layout"
    /\ callLog[3].op = "acquire_swapchain"
    /\ callLog[4].op = "set_layout"
    /\ AllFieldsDiffer(Requested(callLog[2]), ResetTriple)
    /\ Src(cmd_buf[2]) = ResetTriple

(***************************************************************************)
(* C6: the number of device-level image views created for a texture is the *)
(* number of distinct keys requested so far; a request with a key equal to *)
(* an earlier one returns the same cached view, and a cached view is never *)
(* evicted or replaced while the texture lives.                            *)
(***************************************************************************)
KeyOfArgs(call) ==
    ImageViewKey(call.args[1], call.args[2], call.args[3], call.args[4])

KeyOfView(view) ==
    ImageViewKey(view.view_kind, view.format, view.swizzle, view.range)

C6_OneViewPerKey ==
    /\ Len(image_views) = Cardinality({callLog[i].key : i \in ViewCalls})
    /\ \A i \in ViewCalls :
         /\ callLog[i].op = "as_view" => callLog[i].key = KeyOfArgs(callLog[i])
         /\ KeyOfView(callLog[i].view) = callLog[i].key
         /\ texture.kind \in LiveKinds =>
               /\ callLog[i].key \in DOMAIN texture.views
               /\ texture.views[callLog[i].key] = callLog[i].view
         /\ image_views[callLog[i].view.handle] = callLog[i].view
    /\ \A i, j \in ViewCalls :
         (callLog[i].key = callLog[j].key) <=> (callLog[i].view = callLog[j].view)

\* The same key requested twice: one device view, the same one both times.
C6_Witness ==
    /\ Cardinality(ViewCalls) = 2
    /\ \A i \in ViewCalls : callLog[i].op = "as_view"
    /\ \A i, j \in ViewCalls : callLog[i].args = callLog[j].args
    /\ Len(image_views) = 1

(***************************************************************************)
(* C7: as_default_2d_view is as_view(D2, the texture's own format,         *)
(* identity swizzle, {color aspect, levels 0..1, layers 0..1}): both forms *)
(* return the same cache entry and together create one device view.        *)
(***************************************************************************)
Default2dArgs ==
    << "D2", texture.format, <<"R", "G", "B", "A">>,
       [aspects |-> {"COLOR"}, levels |-> Range(0, 1), layers |-> Range(0, 1)] >>

IsDefault2dCall(call) ==
    \/ call.op = "as_default_2d_view"
    \/ call.op = "as_view" /\ call.args = Default2dArgs

C7_DefaultViewEquivalence ==
    /\ \A i, j \in ViewCalls :
         (IsDefault2dCall(callLog[i]) /\ IsDefault2dCall(callLog[j]))
            => /\ callLog[i].key = callLog[j].key
               /\ callLog[i].view = callLog[j].view
    /\ (\E i \in ViewCalls : IsDefault2dCall(callLog[i]))
          => Cardinality({h \in 1..Len(image_views) :
                 <<image_views[h].view_kind, image_views[h].format,
                   image_views[h].swizzle, image_views[h].range>> = Default2dArgs}) = 1

\* The default form first and the explicit form second, on a depth texture.
C7_Witness ==
    /\ texture.kind # "none" /\ texture.format = "D32Sfloat"
    /\ Cardinality(ViewCalls) = 2
    /\ callLog[2].op = "as_default_2d_view"
    /\ callLog[3].op = "as_view" /\ callLog[3].args = Default2dArgs
    /\ callLog[2].view = callLog[3].view
    /\ Len(image_views) = 1

(***************************************************************************)
(* C8: in the pipeline returned by create, every binding the shader        *)
(* declares with count 0 has the count info.bindless_descriptor_count,     *)
(* every other binding keeps its declared count, and the set layouts were  *)
(* built from that rewritten map.                                          *)
(***************************************************************************)
C8_ZeroCountsRewritten ==
    (last_op.op = "create" /\ last_op.result.ok) =>
        LET declared == last_op.shader.descriptor_bindings
            built == last_op.result.value
        IN /\ DOMAIN built.descriptor_bindings = DOMAIN declared
           /\ \A b \in DOMAIN declared :
                /\ declared[b] = 0 =>
                     built.descriptor_bindings[b] = built.info.bindless_descriptor_count
                /\ declared[b] # 0 => built.descriptor_bindings[b] = declared[b]
           /\ built.descriptor_info.layouts = built.descriptor_bindings

\* A shader with one unbounded binding and one of count 3, configured count 16.
C8_Witness ==
    /\ last_op.op = "create" /\ last_op.result.ok
    /\ last_op.shader.descriptor_bindings = (0 :> 0) @@ (1 :> 3)
    /\ last_op.result.value.info.bindless_descriptor_count = 16
    /\ last_op.result.value.descriptor_bindings = (0 :> 16) @@ (1 :> 3)

(***************************************************************************)
(* C9: when the caller leaves bindless_descriptor_count unconfigured, be   *)
(* it through the builder's build() or through                             *)
(* ComputePipelineInfo::default(), create uses 8192, so a binding declared *)
(* with count 0 gets the layout binding count 8192.                        *)
(***************************************************************************)
Unconfigured(input) ==
    \/ input.via = "default"
    \/ input.via = "builder" /\ ~input.bindless_descriptor_count.some

C9_UnconfiguredCountIs8192 ==
    (last_op.op = "create" /\ last_op.result.ok /\ Unconfigured(last_op.input)) =>
        /\ last_op.result.value.info.bindless_descriptor_count = 8192
        /\ \A b \in DOMAIN last_op.shader.descriptor_bindings :
              last_op.shader.descriptor_bindings[b] = 0
                => last_op.result.value.descriptor_info.layouts[b] = 8192

(***************************************************************************)
(* C10: every create call that created the transient shader module has     *)
(* destroyed it by the time it returns, on the success path and on the     *)
(* failure paths that follow the module's creation.                        *)
(***************************************************************************)
C10_ShaderModuleReleased ==
    last_op.op = "create" =>
        \A k \in 1..Len(last_op.calls) :
            (last_op.calls[k].call = "create_shader_module" /\ last_op.calls[k].ok)
                => last_op.calls[k].handle \notin device.shader_modules

(***************************************************************************)
(* C15: cached image views never outlive their texture: dropping the       *)
(* Texture destroys every view of its cache at that point, none before,    *)
(* and all of them before the image is released, so no view exists for an  *)
(* image that has been released.                                           *)
(***************************************************************************)
ReleasedViews ==
    {released[i].handle : i \in {j \in 1..Len(released) : released[j].obj = "view"}}

ImageReleasedAt ==
    {i \in 1..Len(released) : released[i].obj = "image"}

C15_ViewsReleasedWithTexture ==
    /\ texture.kind \in LiveKinds => released = << >>
    /\ texture.kind = "dropped" =>
         /\ ReleasedViews = 1..Len(image_views)
         /\ Len(released) = Len(image_views) + 1
         /\ ImageReleasedAt = {Len(released)}
    /\ ImageReleasedAt # {} => (1..Len(image_views)) \ ReleasedViews = {}

\* A texture with two cached views is dropped.
C15_Witness ==
    /\ texture.kind = "dropped"
    /\ Len(image_views) = 2
    /\ Len(released) = 3
    /\ released[3].obj = "image"

(***************************************************************************)
(* C20: a texture made by Texture::new starts with the layout it was       *)
(* given, stage TOP_OF_PIPE, and access mask HOST_WRITE exactly when the   *)
(* layout is Preinitialized (empty otherwise); the first set_layout        *)
(* barrier has that triple as its source.                                  *)
(***************************************************************************)
NewTriple(layout) ==
    [ access_mask |-> IF layout = "Preinitialized" THEN {"HOST_WRITE"} ELSE {},
      layout |-> layout,
      pipeline_stage |-> "TOP_OF_PIPE" ]

C20_NewInitialState ==
    (Len(callLog) > 0 /\ callLog[1].op = "new") =>
        /\ Len(callLog) = 1 => texture.state = NewTriple(callLog[1].layout)
        /\ (Len(callLog) > 1 /\ callLog[2].op = "set_layout")
              => Src(cmd_buf[1]) = NewTriple(callLog[1].layout)

\* A Preinitialized texture and its first transition.
C20_Witness ==
    /\ Len(callLog) = 2
    /\ callLog[1].op = "new" /\ callLog[1].layout = "Preinitialized"
    /\ callLog[2].op = "set_layout"
    /\ Src(cmd_buf[1]) = State({"HOST_WRITE"}, "Preinitialized", "TOP_OF_PIPE")

(***************************************************************************)
(* Vocabulary of the pipeline properties.                                  *)
(***************************************************************************)
CallsOf(name) ==
    {k \in 1..Len(last_op.calls) : last_op.calls[k].call = name}

CreationCalls ==
    {"create_shader_module", "create_pipeline_layout", "create_compute_pipelines"}

FailedCalls ==
    {k \in 1..Len(last_op.calls) :
        last_op.calls[k].call \in CreationCalls /\ ~last_op.calls[k].ok}

Alive(dev) == dev.shader_modules \cup dev.pipeline_layouts \cup dev.pipelines

(***************************************************************************)
(* C11: when create returns an error, every device object the call created *)
(* has been released: no shader module, pipeline layout or pipeline made   *)
(* by the failed call is still alive.                                      *)
(***************************************************************************)
C11_FailedCreateLeavesNothing ==
    (last_op.op = "create" /\ ~last_op.result.ok) =>
        \A k \in 1..Len(last_op.calls) :
            (last_op.calls[k].call \in CreationCalls /\ last_op.calls[k].ok)
                => last_op.calls[k].handle \notin Alive(device)

(***************************************************************************)
(* C12: a failure of the shader-module, pipeline-layout or                 *)
(* compute-pipeline creation call makes create return                      *)
(* DriverError::Unsupported, with no later creation step and no pipeline   *)
(* handed to the caller.                                                   *)
(***************************************************************************)
C12_CreationFailureIsUnsupported ==
    (last_op.op = "create" /\ FailedCalls # {}) =>
        /\ last_op.result = [ok |-> FALSE, err |-> "Unsupported"]
        /\ FailedCalls = {Len(last_op.calls)}
        /\ \A p \in pipelines :
              \A k \in 1..Len(last_op.calls) :
                  last_op.calls[k].ok =>
                      last_op.calls[k].handle \notin {p.layout, p.pipeline}

\* The compute-pipeline creation is refused after module and layout were made.
C12_Witness ==
    /\ last_op.op = "create"
    /\ Len(last_op.calls) = 3
    /\ last_op.calls[3] = [call |-> "create_compute_pipelines", ok |-> FALSE, handle |-> 0]
    /\ ~last_op.result.ok

(***************************************************************************)
(* C13 (as claimed): a ComputePipeline dropped outside a panic destroys    *)
(* its pipeline layout first and its pipeline object second.               *)
(***************************************************************************)
C13_LayoutDestroyedFirst ==
    (last_op.op = "drop" /\ ~last_op.panicking) =>
        last_op.calls =
            << [call |-> "destroy_pipeline_layout", ok |-> TRUE, handle |-> last_op.self.layout],
               [call |-> "destroy_pipeline", ok |-> TRUE, handle |-> last_op.self.pipeline] >>

(***************************************************************************)
(* C13 (amended): a ComputePipeline dropped outside a panic destroys its   *)
(* pipeline object first and its pipeline layout second.                   *)
(***************************************************************************)
C13_PipelineDestroyedFirst ==
    (last_op.op = "drop" /\ ~last_op.panicking) =>
        last_op.calls =
            << [call |-> "destroy_pipeline", ok |-> TRUE, handle |-> last_op.self.pipeline],
               [call |-> "destroy_pipeline_layout", ok |-> TRUE, handle |-> last_op.self.layout] >>

C13_Witness ==
    /\ last_op.op = "drop" /\ ~last_op.panicking
    /\ Len(last_op.calls) = 2
    /\ last_op.self.pipeline \notin device.pipelines
    /\ last_op.self.layout \notin device.pipeline_layouts

(***************************************************************************)
(* C14 (as claimed): pipelines built from structurally identical shaders   *)
(* (same binding shape and push-constant range) share one memoized         *)
(* pipeline layout.                                                        *)
(***************************************************************************)
SameShape(p, q) ==
    /\ p.descriptor_bindings = q.descriptor_bindings
    /\ p.push_constants = q.push_constants

C14_LayoutMemoized ==
    \A p, q \in pipelines : SameShape(p, q) => p.layout = q.layout

(***************************************************************************)
(* C14 (amended): every create call that succeeds calls the device's       *)
(* pipeline-layout creation exactly once and returns that new layout; no   *)
(* two pipelines share a layout, also when their shaders are structurally  *)
(* identical, and the layout of a live pipeline is alive on the device.    *)
(***************************************************************************)
C14_OneLayoutPerPipeline ==
    /\ (last_op.op = "create" /\ last_op.result.ok) =>
          /\ Cardinality(CallsOf("create_pipeline_layout")) = 1
          /\ \A k \in CallsOf("create_pipeline_layout") :
                last_op.calls[k].ok /\ last_op.calls[k].handle = last_op.result.value.layout
    /\ \A p, q \in pipelines : p # q => p.layout # q.layout
    /\ \A p \in pipelines : p.layout \in device.pipeline_layouts

\* Two live pipelines of the same shape, each with a layout of its own.
C14_Witness ==
    \E p, q \in pipelines :
        /\ p # q
        /\ SameShape(p, q)
        /\ p.layout # q.layout
        /\ {p.layout, q.layout} \subseteq device.pipeline_layouts

(***************************************************************************)
(* C19: a ComputePipeline dropped while the thread is panicking makes no   *)
(* device call, so its pipeline and layout stay as they were; dropped      *)
(* outside a panic, both objects are destroyed.                            *)
(***************************************************************************)
C19_PanickingDropIsSilent ==
    last_op.op = "drop" =>
        IF last_op.panicking
        THEN /\ last_op.calls = << >>
             /\ last_op.self.pipeline \in device.pipelines
             /\ last_op.self.layout \in device.pipeline_layouts
        ELSE /\ last_op.self.pipeline \notin device.pipelines
             /\ last_op.self.layout \notin device.pipeline_layouts
             /\ {last_op.calls[k].call : k \in 1..Len(last_op.calls)} =
                    {"destroy_pipeline", "destroy_pipeline_layout"}

C19_Witness ==
    /\ last_op.op = "drop" /\ last_op.panicking
    /\ last_op.calls = << >>
    /\ last_op.self.pipeline \in device.pipelines

(***************************************************************************)
(* Vocabulary of the pool claims.                                          *)
(***************************************************************************)
Held ==
    leases \o [i \in 1..Len(models) |-> models[i].index_buf]
           \o [i \in 1..Len(models) |-> models[i].vertex_buf]

HeldIds == {Held[i].id : i \in 1..Len(Held)}

IdleIds == {pool.idle[i].id : i \in 1..Len(pool.idle)}

Misses ==
    {i \in Acquisitions : CompatibleAt(poolLog[i].idle_before, poolLog[i].shape) = {}}

(***************************************************************************)
(* C16: an instance of the pool is held by at most one lease at a time: no *)
(* two outstanding leases hold the same instance, and an instance held by  *)
(* a lease is not on the free-list, where a later acquire could find it.   *)
(***************************************************************************)
C16_OneLeasePerInstance ==
    /\ \A i, j \in 1..Len(Held) : i # j => Held[i].id # Held[j].id
    /\ HeldIds \cap IdleIds = {}
    /\ \A i, j \in 1..Len(pool.idle) : i # j => pool.idle[i].id # pool.idle[j].id

\* Two leases outstanding, one of them on an instance that had been leased
\* and released before.
C16_Witness ==
    /\ Len(Held) >= 2
    /\ \E i \in 1..Len(poolLog), h \in 1..Len(Held) :
          /\ poolLog[i].op = "release"
          /\ poolLog[i].instance = Held[h].id
    /\ \E i \in Acquisitions : ~poolLog[i].allocated

C18_WaitIdleBeforeDestruction ==
    /\ gpu.alive => (gpu.teardown = << >> /\ ~pool.destroyed)
    /\ ~gpu.alive =>
          /\ gpu.teardown[1].ev = "wait_idle"
          /\ \A i \in 1..Len(gpu.teardown) :
                gpu.teardown[i].ev \in {"drop", "destroy"} => i > 1
    /\ pool.destroyed =>
          \E i \in 1..Len(gpu.teardown) :
              gpu.teardown[i] = [ev |-> "drop", field |-> "pool"]

\* A teardown whose wait succeeded and that destroyed an idle instance of
\* the pool.
C18_Witness ==
    /\ ~gpu.alive
    /\ gpu.teardown[1] = [ev |-> "wait_idle", ok |-> TRUE]
    /\ \E i \in 2..Len(gpu.teardown) : gpu.teardown[i].ev = "destroy"
    /\ pool.destroyed

(***************************************************************************)
(* C21: as_view does not fail on the borrow of the view cache while an     *)
(* ImageViewRef returned earlier by the same texture is held, whether the  *)
(* new key is the held one or another, and the held handle still           *)
(* dereferences to a cached view.                                          *)
(***************************************************************************)
C21_AsViewWhileRefHeld ==
    /\ ~(panicked /\ view_ref # NoRef)
    /\ (view_ref # NoRef /\ texture.kind \in LiveKinds) =>
          /\ ContainsKey(texture.views, view_ref.key)
          /\ KeyOfView(Deref(texture.views, view_ref)) = view_ref.key

(***************************************************************************)
(* Vocabulary of the op cache claim.                                       *)
(***************************************************************************)
RECURSIVE PendingBefore(_)
\* The ops returned by the resolve calls made before call i and after the
\* last render call before it, in the order of those calls.
PendingBefore(i) ==
    IF i = 1 THEN << >>
    ELSE IF opLog[i - 1].op = "render" THEN << >>
    ELSE PendingBefore(i - 1) \o opLog[i - 1].returned

(***************************************************************************)
(* C22: the op cache holds the ops of the resolves made since the last     *)
(* render, in the order of those resolves; a render takes exactly that     *)
(* list and leaves the cache empty, so a render with no resolve since the  *)
(* previous render starts with no ops.                                     *)
(***************************************************************************)
C22_OpCacheOrder ==
    /\ \A i \in 1..Len(opLog) :
          opLog[i].op = "render" => opLog[i].taken = PendingBefore(i)
    /\ RenderOps(ops) = PendingBefore(Len(opLog) + 1)
    /\ (Len(opLog) > 0 /\ opLog[Len(opLog)].op = "render") => ops = None

\* A render that took the ops of two resolves, in their order, followed by
\* nothing: the cache is empty again.
C22_Witness ==
    /\ Len(opLog) >= 3
    /\ opLog[Len(opLog)].op = "render"
    /\ opLog[Len(opLog) - 1].op = "resolve" /\ opLog[Len(opLog) - 1].returned # << >>
    /\ opLog[Len(opLog) - 2].op = "resolve" /\ opLog[Len(opLog) - 2].returned # << >>
    /\ opLog[Len(opLog)].taken =
          opLog[Len(opLog) - 2].returned \o opLog[Len(opLog) - 1].returned
    /\ ops = None

(***************************************************************************)
(* Vocabulary of the destruction claim.                                    *)
(***************************************************************************)
\* The pipeline values that a step disposes of.
Dropped == pipelines \ pipelines'

IsDropStep == pipelines' # pipelines /\ pipelines' \subseteq pipelines

\* Every live pipeline refers to objects that are alive and that no other
\* live pipeline refers to.
LivePipelinesOwnLiveObjects ==
    /\ \A p \in pipelines :
          p.pipeline \in device.pipelines /\ p.layout \in device.pipeline_layouts
    /\ \A p, q \in pipelines :
          p # q => (p.pipeline # q.pipeline /\ p.layout # q.layout)

\* What one step may destroy, and how.
DestroyStep ==
    /\ device.pipelines \ device'.pipelines \subseteq {p.pipeline : p \in Dropped}
    /\ device.pipeline_layouts \ device'.pipeline_layouts
          \subseteq {p.layout : p \in Dropped}
    /\ \A q \in pipelines' :
          q.pipeline \in device'.pipelines /\ q.layout \in device'.pipeline_layouts
    /\ IsDropStep =>
          \A k \in 1..Len(last_op'.calls) :
              /\ last_op'.calls[k].call = "destroy_pipeline" =>
                    /\ last_op'.calls[k].handle = last_op'.self.pipeline
                    /\ last_op'.calls[k].handle \in device.pipelines
              /\ last_op'.calls[k].call = "destroy_pipeline_layout" =>
                    /\ last_op'.calls[k].handle = last_op'.self.layout
                    /\ last_op'.calls[k].handle \in device.pipeline_layouts
              /\ \A j \in 1..(k - 1) : last_op'.calls[j] # last_op'.calls[k]
    /\ \A h \in 1..device.handles :
          /\ h \notin device.pipelines => h \notin device'.pipelines
          /\ h \notin device.pipeline_layouts => h \notin device'.pipeline_layouts

(***************************************************************************)
(* C23: a pipeline object or pipeline layout leaves the device only in the *)
(* drop of the pipeline value that owns it, by one destroy call on an      *)
(* object that is alive, and it never comes back; the objects of every     *)
(* other live pipeline, structurally identical ones included, stay alive.  *)
(***************************************************************************)
C23_DestroyedOnceByOwner ==
    /\ [](LivePipelinesOwnLiveObjects)
    /\ [][DestroyStep]_vars

\* A pipeline has been dropped and its objects destroyed while a pipeline
\* of the same shape lives on with its own.
C23_Witness ==
    /\ last_op.op = "drop" /\ ~last_op.panicking
    /\ last_op.self.pipeline \notin device.pipelines
    /\ last_op.self.layout \notin device.pipeline_layouts
    /\ \E q \in pipelines :
          /\ SameShape(q, last_op.self)
          /\ q.pipeline \in device.pipelines
          /\ q.layout \in device.pipeline_layouts

====
